---- MODULE Spec2Model ----
(***************************************************************************)
(* NextNest backend: the donation ledger with its target resolver, the     *)
(* Razorpay order / payment-verification path, the child registry, the     *)
(* scheme catalog with the age-based eligibility matcher, and the          *)
(* AI-delegated child endpoints, as a state machine over the stores.       *)
(***************************************************************************)
EXTENDS Integers, Sequences, FiniteSets, TLC

VARIABLES
    children,      \* Child collection: function from the ids of stored children to documents
    schemes,       \* Scheme collection: function from the ids of stored schemes to documents
    applications,  \* SchemeApplication collection: function from ids to documents
    medicalCases,  \* MedicalCase collection: function from ids to documents
    opportunities, \* Opportunity collection: function from ids to documents
    ledger,        \* Donation collection, in insertion order
    orders,        \* orders held by the payment gateway, in creation order
    payments,      \* payments captured by the gateway and handed to the checkout handler
    events,        \* socket.io events emitted while serving the last request
    resp,          \* the last request and the response it got
    pending        \* donation requests suspended between their child lookup and their insert

vars == <<children, schemes, applications, medicalCases, opportunities,
          ledger, orders, payments, events, resp, pending>>

registry == <<children, schemes, applications, medicalCases, opportunities>>
gateway  == <<orders, payments>>

----------------------------------------------------------------------------
(* Bounds of the model *)

MaxLedger == 2       \* donation records
MaxOrders == 1       \* gateway orders
MaxPending == 1      \* donation requests suspended at an await
MaxPayments == 1     \* captured payments

----------------------------------------------------------------------------
(* JavaScript values *)

Undef == "undefined"                 \* an absent field / JS undefined

Truthy(x) == x # Undef /\ x # ""     \* JS truthiness of a string-or-undefined

\* a request value that is a number, a string, or absent
Num(n)  == [t |-> "num", n |-> n, s |-> ""]
StrV(s) == [t |-> "str", n |-> 0, s |-> s]
UndefV  == [t |-> "undef", n |-> 0, s |-> ""]

\* an optional stored Number
Some(n) == [set |-> TRUE, v |-> n]
None    == [set |-> FALSE, v |-> 0]

\* decimal strings the model uses, with their values (String -> Number conversion)
NumericStrings == {"7", "5"}
ParseNumber(s) == CASE s = "7" -> 7 [] s = "5" -> 5 [] OTHER -> 0

\* JS ToNumber, used by `amount * 100`: NaN is [ok |-> FALSE]
ToNumber(v) ==
    CASE v.t = "num" -> [ok |-> TRUE, n |-> v.n]
      [] v.t = "str" /\ v.s \in NumericStrings -> [ok |-> TRUE, n |-> ParseNumber(v.s)]
      [] v.t = "str" /\ v.s = "" -> [ok |-> TRUE, n |-> 0]
      [] OTHER -> [ok |-> FALSE, n |-> 0]

\* the numeric value a request amount denotes, when it denotes one
IsNumeric(v) == v.t = "num" \/ (v.t = "str" /\ v.s \in NumericStrings)
NumericValue(v) == IF v.t = "num" THEN v.n ELSE ParseNumber(v.s)

----------------------------------------------------------------------------
(* Accounts *)

Donors == {"d1", "d2"}
Orphanages == {"o1", "o2"}
Admins == {"a1"}
Users == Donors \cup Orphanages \cup Admins
NoUser == "anonymous"                \* a request without a valid token

Role(u) ==
    IF u \in Donors THEN "donor"
    ELSE IF u \in Orphanages THEN "orphanage"
    ELSE IF u \in Admins THEN "admin"
    ELSE "none"

\* ObjectIds the store can hand out, per collection; an id is never handed out twice
ChildIds == {"c1", "c2", "k1", "k2", "k3"}
NewChildIds == {"c1"}                \* the ids created children get, in order
SchemeIds == {"s1", "s2"}
NewSchemeIds == {"s1"}               \* the ids created schemes get
ApplicationIds == {"ap1"}
MedicalCaseIds == {"m1"}
OpportunityIds == {"op1"}
BadId == "zz"                        \* a string that is no ObjectId
ObjectIds == Users \cup ChildIds \cup SchemeIds \cup ApplicationIds
                 \cup MedicalCaseIds \cup OpportunityIds

\* mongoose ObjectId cast: undefined stays unset, a well-formed id casts, anything else throws
CastsToObjectId(x) == x = Undef \/ x \in ObjectIds

----------------------------------------------------------------------------
(* Requests and responses *)

\* Gateway ids are strings, modelled as sequences of characters so that
\* `razorpay_order_id + "|" + razorpay_payment_id` is a real concatenation.
\* An absent id concatenates as the text "undefined".
NoId == <<"undefined">>
NoSig == [key |-> "", msg |-> <<>>]  \* no razorpay_signature in the body

\* req.body of the donation and payment requests
BlankBody ==
    [amount |-> UndefV, message |-> Undef, childId |-> Undef, orphanageId |-> Undef,
     razorpay_order_id |-> NoId, razorpay_payment_id |-> NoId,
     razorpay_signature |-> NoSig]

DonationBody(a, m, c, o) ==
    [BlankBody EXCEPT !.amount = a, !.message = m, !.childId = c, !.orphanageId = o]

PaymentBody(oid, pid, sig, a, m, c) ==
    [BlankBody EXCEPT !.razorpay_order_id = oid, !.razorpay_payment_id = pid,
                      !.razorpay_signature = sig, !.amount = a, !.message = m,
                      !.childId = c]

NoData == {}

\* the request served last (operation, principal, req.params id, req.body) and
\* res.status(status).json({success, message, ...data})
Response(op, user, id, body, status, success, message, data) ==
    [op |-> op, user |-> user, id |-> id, body |-> body, status |-> status,
     success |-> success, message |-> message, data |-> data]

NoRequest == Response("none", NoUser, Undef, BlankBody, 0, FALSE, "", NoData)

NoEvents == <<>>

----------------------------------------------------------------------------
(* Mongoose models *)

\* mongoose Number cast of a path value: a number is kept, a numeric string is
\* converted, the empty string and undefined leave the path unset, any other
\* string is a CastError
CastNumber(v) ==
    CASE v.t = "num" -> [ok |-> TRUE, set |-> TRUE, n |-> v.n]
      [] v.t = "str" /\ v.s \in NumericStrings ->
             [ok |-> TRUE, set |-> TRUE, n |-> ParseNumber(v.s)]
      [] v.t = "str" /\ v.s = "" -> [ok |-> TRUE, set |-> FALSE, n |-> 0]
      [] v.t = "undef" -> [ok |-> TRUE, set |-> FALSE, n |-> 0]
      [] OTHER -> [ok |-> FALSE, set |-> FALSE, n |-> 0]

\* the optional Number a cast leaves in the document
Stored(v) == IF CastNumber(v).set THEN Some(CastNumber(v).n) ELSE None

FundTypes == {"bulk", "accessory", "individual_sponsorship", "medical", "general"}
TargetModels == {"User", "Child", "MedicalCase"}

\* validation of the amount path: { type: Number, required: true }
AmountValid(v) == CastNumber(v).ok /\ CastNumber(v).set

\* Donation.create(doc): the stored document, or a validation failure
DonationCreate(doc) ==
    LET ft == IF doc.fundType = Undef THEN "general" ELSE doc.fundType
        ok == /\ AmountValid(doc.amount)
              /\ ft \in FundTypes
              /\ CastsToObjectId(doc.targetRef)
              /\ doc.targetModel \in TargetModels \cup {Undef}
              /\ doc.donor \in ObjectIds
              /\ CastsToObjectId(doc.orphanage)
    IN  [ok |-> ok,
         rec |-> [donor |-> doc.donor,
                  amount |-> CastNumber(doc.amount).n,
                  message |-> doc.message,
                  fundType |-> ft,
                  targetRef |-> doc.targetRef,
                  targetModel |-> doc.targetModel,
                  orphanage |-> doc.orphanage]]

\* a Child document; a deleted child keeps its id out of circulation
ChildDoc(age, orphanage) == [age |-> age, orphanage |-> orphanage, live |-> TRUE]
DeletedChild == [age |-> None, orphanage |-> Undef, live |-> FALSE]

\* req.body of the child requests
ChildBody(name, age, orphanage) == [name |-> name, age |-> age, orphanage |-> orphanage]

\* Child schema validation: name required, age a Number, orphanage an ObjectId
ChildValid(b) ==
    /\ Truthy(b.name)
    /\ CastNumber(b.age).ok
    /\ CastsToObjectId(b.orphanage)

\* a Scheme document: eligibilityRules.minAge / maxAge
SchemeDoc(minAge, maxAge) == [minAge |-> minAge, maxAge |-> maxAge]
SchemeBody(name, minAge, maxAge) == [name |-> name, minAge |-> minAge, maxAge |-> maxAge]
SchemeValid(b) == Truthy(b.name) /\ CastNumber(b.minAge).ok /\ CastNumber(b.maxAge).ok

\* SchemeApplication: child and scheme required ObjectIds, status defaults
ApplicationBody(child, scheme) == [child |-> child, scheme |-> scheme]
ApplicationValid(b) == b.child \in ObjectIds /\ b.scheme \in ObjectIds
ApplicationDoc(b) == [child |-> b.child, scheme |-> b.scheme, status |-> "identified"]

\* MedicalCase: child, diagnosis and targetAmount required; status enum
MedicalStatuses == {"open", "funded", "closed"}
MedicalBody(child, diagnosis, targetAmount) ==
    [child |-> child, diagnosis |-> diagnosis, targetAmount |-> targetAmount]
MedicalValid(b) ==
    b.child \in ObjectIds /\ Truthy(b.diagnosis) /\ AmountValid(b.targetAmount)
MedicalDoc(b) == [child |-> b.child, targetAmount |-> CastNumber(b.targetAmount).n,
                  amountRaised |-> 0, status |-> "open"]

\* Opportunity: title and type required; enums on type and status
OpportunityTypes == {"education", "vocational", "job", "housing", "mentor"}
OpportunityStatuses == {"active", "filled", "closed"}
OpportunityBody(title, type) == [title |-> title, type |-> type]
OpportunityValid(b) == Truthy(b.title) /\ b.type \in OpportunityTypes
OpportunityDoc(b) == [type |-> b.type, status |-> "active"]

\* the store hands a new document an id it has not handed out before
FreshIds(pool, coll) == pool \ DOMAIN coll
NewId(pool, coll) == CHOOSE x \in FreshIds(pool, coll) : TRUE
Insert(coll, id, doc) == [x \in DOMAIN coll \cup {id} |-> IF x = id THEN doc ELSE coll[x]]

\* findById: throws a CastError for a string that is no ObjectId
FindByIdThrows(id) == id \notin ObjectIds

ChildFound(id) == id \in DOMAIN children /\ children[id].live
LiveChildren == {c \in DOMAIN children : children[c].live}

----------------------------------------------------------------------------
(* Target resolution, shared by createDonation and verifyPayment *)

\* ResolveTarget that keeps a caller-supplied orphanageId (orphanageId || child.orphanage)
ResolveTargetKeepsCaller(body) ==
    IF Truthy(body.childId) /\ ChildFound(body.childId)
    THEN [orphanage |-> IF Truthy(body.orphanageId) THEN body.orphanageId
                        ELSE children[body.childId].orphanage,
          fundType |-> "individual_sponsorship",
          targetModel |-> "Child",
          targetRef |-> body.childId]
    ELSE [orphanage |-> body.orphanageId,
          fundType |-> "general",
          targetModel |-> Undef,
          targetRef |-> Undef]

\* ResolveTarget that takes a truthy childId for a resolved child
ResolveTargetUnchecked(body) ==
    IF Truthy(body.childId)
    THEN [orphanage |-> IF ChildFound(body.childId)
                        THEN children[body.childId].orphanage ELSE body.orphanageId,
          fundType |-> "individual_sponsorship",
          targetModel |-> "Child",
          targetRef |-> body.childId]
    ELSE [orphanage |-> body.orphanageId,
          fundType |-> "general",
          targetModel |-> Undef,
          targetRef |-> Undef]

\* ResolveTarget that lets a fundType in the body replace the resolved one
ResolveTargetBodyFundType(body) ==
    IF Truthy(body.childId) /\ ChildFound(body.childId)
    THEN [orphanage |-> children[body.childId].orphanage,
          fundType |-> IF Truthy(body.fundType) THEN body.fundType
                       ELSE "individual_sponsorship",
          targetModel |-> "Child",
          targetRef |-> body.childId]
    ELSE [orphanage |-> body.orphanageId,
          fundType |-> IF Truthy(body.fundType) THEN body.fundType ELSE "general",
          targetModel |-> Undef,
          targetRef |-> Undef]

\* `if (childId) { const child = await Child.findById(childId); if (child) {...} }`
ResolveTarget(body) ==
    IF Truthy(body.childId) /\ ChildFound(body.childId)
    THEN [orphanage |-> children[body.childId].orphanage,
          fundType |-> "individual_sponsorship",
          targetModel |-> "Child",
          targetRef |-> body.childId]
    ELSE [orphanage |-> body.orphanageId,
          fundType |-> "general",
          targetModel |-> Undef,
          targetRef |-> Undef]

\* message || `Donation for ${childId ? 'Child' : 'General Support'}`
DefaultMessage(body) ==
    IF Truthy(body.message) THEN body.message
    ELSE IF Truthy(body.childId) THEN "Donation for Child"
    ELSE "Donation for General Support"

\* DonationDoc with the amount stored in paise, as createOrder sends it to the gateway
DonationDocPaise(user, body) ==
    LET t == ResolveTarget(body)
    IN  [donor |-> user,
         amount |-> IF IsNumeric(body.amount)
                    THEN Num(NumericValue(body.amount) * 100) ELSE body.amount,
         message |-> DefaultMessage(body),
         fundType |-> t.fundType,
         targetRef |-> t.targetRef,
         targetModel |-> t.targetModel,
         orphanage |-> t.orphanage]

\* DonationDoc that takes the donor from the body when the body names one
DonationDocBodyDonor(user, body) ==
    LET t == ResolveTarget(body)
    IN  [donor |-> IF Truthy(body.donor) THEN body.donor ELSE user,
         amount |-> body.amount,
         message |-> DefaultMessage(body),
         fundType |-> t.fundType,
         targetRef |-> t.targetRef,
         targetModel |-> t.targetModel,
         orphanage |-> t.orphanage]

\* the document both controllers hand to Donation.create
DonationDoc(user, body) ==
    LET t == ResolveTarget(body)
    IN  [donor |-> user,
         amount |-> body.amount,
         message |-> DefaultMessage(body),
         fundType |-> t.fundType,
         targetRef |-> t.targetRef,
         targetModel |-> t.targetModel,
         orphanage |-> t.orphanage]

\* io.emit("new_donation", {amount, message, fundType})
NewDonationEvent(rec) ==
    [type |-> "new_donation", amount |-> rec.amount, message |-> rec.message,
     fundType |-> rec.fundType]

----------------------------------------------------------------------------
(* donationController.createDonation *)

\* what req.app.get("io") and io.emit do while a request is served: the
\* server registers io and the event goes out; no io is registered and the
\* emit is skipped; or io.emit throws
IoOutcomes == {"emits", "absent", "throws"}

\* the whole handler runs in one try block: Donation.create, then the emit,
\* then the 201; whatever throws is answered 500 by the catch block
createDonation(user, body, io) ==
    /\ Len(ledger) < MaxLedger
    /\ IF Truthy(body.childId) /\ FindByIdThrows(body.childId)
       THEN /\ resp' = Response("createDonation", user, Undef, body, 500, FALSE,
                                "CastError", NoData)
            /\ UNCHANGED ledger
            /\ events' = NoEvents
       ELSE LET r == DonationCreate(DonationDoc(user, body))
            IN  IF r.ok
                THEN /\ ledger' = Append(ledger, r.rec)
                     /\ events' = IF io = "emits" THEN <<NewDonationEvent(r.rec)>>
                                  ELSE NoEvents
                     /\ resp' = IF io = "throws"
                                THEN Response("createDonation", user, Undef, body, 500,
                                              FALSE, "emit failed", NoData)
                                ELSE Response("createDonation", user, Undef, body, 201,
                                              TRUE, "", {r.rec})
                ELSE /\ resp' = Response("createDonation", user, Undef, body, 500, FALSE,
                                         "ValidationError", NoData)
                     /\ UNCHANGED ledger
                     /\ events' = NoEvents
    /\ UNCHANGED <<registry, gateway, pending>>

\* getMyDonations with Donation.find() in place of Donation.find({ donor })
getMyDonationsUnfiltered(user) ==
    /\ resp' = Response("getMyDonations", user, Undef, BlankBody, 200, TRUE, "",
                        [count |-> Len(ledger), donations |-> ledger])
    /\ events' = NoEvents
    /\ UNCHANGED <<registry, gateway, ledger, pending>>

\* getMyDonations: Donation.find({ donor: req.user.id }), answered as
\* { count: donations.length, donations }
getMyDonations(user) ==
    /\ LET donations == SelectSeq(ledger, LAMBDA r : r.donor = user)
       IN  resp' = Response("getMyDonations", user, Undef, BlankBody, 200, TRUE, "",
                            [count |-> Len(donations), donations |-> donations])
    /\ events' = NoEvents
    /\ UNCHANGED <<registry, gateway, ledger, pending>>

\* the handler written in the POST /donations route: donor, amount and message only
postDonation(user, body) ==
    /\ Len(ledger) < MaxLedger
    /\ LET r == DonationCreate([donor |-> user, amount |-> body.amount,
                                message |-> body.message, fundType |-> Undef,
                                targetRef |-> Undef, targetModel |-> Undef,
                                orphanage |-> Undef])
       IN  IF r.ok
           THEN /\ ledger' = Append(ledger, r.rec)
                /\ resp' = Response("postDonation", user, Undef, body, 201, TRUE, "",
                                    {r.rec})
           ELSE /\ resp' = Response("postDonation", user, Undef, body, 500, FALSE,
                                    "Donation failed", NoData)
                /\ UNCHANGED ledger
    /\ events' = NoEvents
    /\ UNCHANGED <<registry, gateway, pending>>

----------------------------------------------------------------------------
(* The payment gateway (Razorpay) as the controllers see it *)

RAZOR_KEY_SECRET == "key_secret"     \* process.env.RAZOR_KEY_SECRET
GuessedKey == "guess"                \* a key a client can sign with

\* crypto.createHmac("sha256", key).update(msg).digest("hex"): a digest is
\* determined by the key and the message, and no two of them collide
Hmac(key, msg) == [key |-> key, msg |-> msg]

Digit(i) == CASE i = 1 -> "1" [] i = 2 -> "2" [] i = 3 -> "3" [] OTHER -> "4"
OrderIdOf(i) == <<"o", Digit(i)>>
PaymentIdOf(i) == <<"p", Digit(i)>>

\* razorpay_order_id + "|" + razorpay_payment_id
SignedBody(oid, pid) == oid \o <<"|">> \o pid

\* razorpayInstance.orders.create: the gateway takes a positive whole number of paise
GatewayAccepts(paise) == paise.ok /\ paise.n > 0

\* paymentController.createOrder
createOrder(user, body) ==
    /\ Len(orders) < MaxOrders
    /\ LET a == ToNumber(body.amount)
           paise == [ok |-> a.ok, n |-> a.n * 100]
       IN  IF GatewayAccepts(paise)
           THEN /\ orders' = Append(orders, [id |-> OrderIdOf(Len(orders) + 1),
                                             amount |-> paise.n])
                /\ resp' = Response("createOrder", user, Undef, body, 200, TRUE, "",
                                    NoData)
           ELSE /\ resp' = Response("createOrder", user, Undef, body, 500, FALSE,
                                    "Error creating Razorpay order", NoData)
                /\ UNCHANGED orders
    /\ events' = NoEvents
    /\ UNCHANGED <<registry, ledger, payments, pending>>

\* The donor pays order i in the checkout: the gateway captures the payment
\* and hands {razorpay_order_id, razorpay_payment_id, razorpay_signature} to
\* the checkout handler.
GatewayPay(i) ==
    /\ i \in 1..Len(orders)
    /\ Len(payments) < MaxPayments
    /\ \A k \in 1..Len(payments) : payments[k].razorpay_order_id # orders[i].id
    /\ LET pid == PaymentIdOf(Len(payments) + 1)
       IN  payments' = Append(payments,
               [razorpay_order_id |-> orders[i].id,
                razorpay_payment_id |-> pid,
                razorpay_signature |->
                    Hmac(RAZOR_KEY_SECRET, SignedBody(orders[i].id, pid))])
    /\ resp' = Response("checkout", NoUser, Undef, BlankBody, 200, TRUE, "", NoData)
    /\ events' = NoEvents
    /\ UNCHANGED <<registry, ledger, orders, pending>>

\* IsAuthentic that checks the signed text but not the key it was signed with
IsAuthenticAnyKey(body) ==
    body.razorpay_signature.msg
        = SignedBody(body.razorpay_order_id, body.razorpay_payment_id)

\* expectedSignature === razorpay_signature
IsAuthentic(body) ==
    Hmac(RAZOR_KEY_SECRET, SignedBody(body.razorpay_order_id, body.razorpay_payment_id))
        = body.razorpay_signature

\* paymentController.verifyPayment
verifyPayment(user, body) ==
    /\ Len(ledger) < MaxLedger
    /\ IF IsAuthentic(body)
       THEN IF Truthy(body.childId) /\ FindByIdThrows(body.childId)
            THEN /\ resp' = Response("verifyPayment", user, Undef, body, 500, FALSE,
                                     "Internal server error", NoData)
                 /\ UNCHANGED ledger
            ELSE LET r == DonationCreate(DonationDoc(user, body))
                 IN  IF r.ok
                     THEN /\ ledger' = Append(ledger, r.rec)
                          /\ resp' = Response("verifyPayment", user, Undef, body, 200,
                                              TRUE, "", {r.rec})
                     ELSE /\ resp' = Response("verifyPayment", user, Undef, body, 500,
                                              FALSE, "Internal server error", NoData)
                          /\ UNCHANGED ledger
       ELSE /\ resp' = Response("verifyPayment", user, Undef, body, 400, FALSE,
                                "Verification Failed", NoData)
            /\ UNCHANGED ledger
    /\ events' = NoEvents
    /\ UNCHANGED <<registry, gateway, pending>>

----------------------------------------------------------------------------
(* createDonation / verifyPayment as the event loop runs them: the handler   *)
(* suspends at `await Child.findById(childId)` and again at                  *)
(* `await Donation.create(...)`, and other requests are served in between    *)

\* the first half, for a request that names a child: the signature check (on
\* the payment path), the child lookup and the target taken from what it read
lookupChild(op, user, body) ==
    /\ Len(pending) < MaxPending
    /\ Truthy(body.childId)
    /\ ~FindByIdThrows(body.childId)
    /\ op = "verifyPayment" => IsAuthentic(body)
    /\ pending' = Append(pending, [op |-> op, user |-> user, body |-> body,
                                   doc |-> DonationDoc(user, body)])
    /\ UNCHANGED <<registry, gateway, ledger, events, resp>>

\* insertDonation that resolves the target again when it inserts
insertDonationRereads(i) ==
    /\ i \in 1..Len(pending)
    /\ Len(ledger) < MaxLedger
    /\ LET p == pending[i]
           r == DonationCreate(DonationDoc(p.user, p.body))
       IN  /\ ledger' = Append(ledger, r.rec)
           /\ events' = IF p.op = "createDonation" THEN <<NewDonationEvent(r.rec)>>
                        ELSE NoEvents
           /\ resp' = Response(p.op, p.user, Undef, p.body,
                               IF p.op = "createDonation" THEN 201 ELSE 200,
                               TRUE, "", {r.rec})
    /\ pending' = SubSeq(pending, 1, i - 1) \o SubSeq(pending, i + 1, Len(pending))
    /\ UNCHANGED <<registry, gateway>>

\* the second half: Donation.create with the document built from the lookup,
\* then the emit (createDonation only) and the response
insertDonation(i) ==
    /\ i \in 1..Len(pending)
    /\ Len(ledger) < MaxLedger
    /\ LET p == pending[i]
           r == DonationCreate(p.doc)
       IN  IF r.ok
           THEN /\ ledger' = Append(ledger, r.rec)
                /\ events' = IF p.op = "createDonation"
                             THEN <<NewDonationEvent(r.rec)>> ELSE NoEvents
                /\ resp' = Response(p.op, p.user, Undef, p.body,
                                    IF p.op = "createDonation" THEN 201 ELSE 200,
                                    TRUE, "", {r.rec})
           ELSE /\ resp' = Response(p.op, p.user, Undef, p.body, 500, FALSE,
                                    "ValidationError", NoData)
                /\ events' = NoEvents
                /\ UNCHANGED ledger
    /\ pending' = SubSeq(pending, 1, i - 1) \o SubSeq(pending, i + 1, Len(pending))
    /\ UNCHANGED <<registry, gateway>>

----------------------------------------------------------------------------
(* childController *)

NewChildEvent(doc) ==
    [type |-> "new_child", age |-> doc.age, orphanage |-> doc.orphanage]

\* createChild: Child.create(req.body), then io.emit("new_child", ...)
createChild(user, b) ==
    /\ FreshIds(NewChildIds, children) # {}
    /\ IF ChildValid(b)
       THEN LET id == NewId(NewChildIds, children)
                doc == ChildDoc(Stored(b.age), b.orphanage)
            IN  /\ children' = Insert(children, id, doc)
                /\ events' = <<NewChildEvent(doc)>>
                /\ resp' = Response("createChild", user, id, BlankBody, 201, TRUE, "",
                                    NoData)
       ELSE /\ resp' = Response("createChild", user, Undef, BlankBody, 500, FALSE,
                                "ValidationError", NoData)
            /\ events' = NoEvents
            /\ UNCHANGED children
    /\ UNCHANGED <<schemes, applications, medicalCases, opportunities, ledger, gateway, pending>>

\* updateChild: Child.findByIdAndUpdate(id, req.body, {new: true, runValidators: true})
updateChild(user, id, b) ==
    /\ IF FindByIdThrows(id) \/ ~CastNumber(b.age).ok \/ ~CastsToObjectId(b.orphanage)
       THEN /\ resp' = Response("updateChild", user, id, BlankBody, 500, FALSE,
                                "CastError", NoData)
            /\ UNCHANGED children
       ELSE IF ~ChildFound(id)
       THEN /\ resp' = Response("updateChild", user, id, BlankBody, 404, FALSE,
                                "Child not found", NoData)
            /\ UNCHANGED children
       ELSE /\ children' = [children EXCEPT
                   ![id].age = IF b.age.t = "undef" THEN @ ELSE Stored(b.age),
                   ![id].orphanage = IF b.orphanage = Undef THEN @ ELSE b.orphanage]
            /\ resp' = Response("updateChild", user, id, BlankBody, 200, TRUE, "", NoData)
    /\ events' = NoEvents
    /\ UNCHANGED <<schemes, applications, medicalCases, opportunities, ledger, gateway, pending>>

\* deleteChild that also removes the donations made to the child
deleteChildCascade(user, id) ==
    /\ IF FindByIdThrows(id)
       THEN /\ resp' = Response("deleteChild", user, id, BlankBody, 500, FALSE,
                                "CastError", NoData)
            /\ UNCHANGED <<children, ledger>>
       ELSE IF ~ChildFound(id)
       THEN /\ resp' = Response("deleteChild", user, id, BlankBody, 404, FALSE,
                                "Child not found", NoData)
            /\ UNCHANGED <<children, ledger>>
       ELSE /\ children' = [children EXCEPT ![id] = DeletedChild]
            /\ ledger' = SelectSeq(ledger, LAMBDA r : r.targetRef # id)
            /\ resp' = Response("deleteChild", user, id, BlankBody, 200, TRUE,
                                "Child deleted", NoData)
    /\ events' = NoEvents
    /\ UNCHANGED <<schemes, applications, medicalCases, opportunities, gateway, pending>>

\* deleteChild: Child.findByIdAndDelete(id)
deleteChild(user, id) ==
    /\ IF FindByIdThrows(id)
       THEN /\ resp' = Response("deleteChild", user, id, BlankBody, 500, FALSE,
                                "CastError", NoData)
            /\ UNCHANGED children
       ELSE IF ~ChildFound(id)
       THEN /\ resp' = Response("deleteChild", user, id, BlankBody, 404, FALSE,
                                "Child not found", NoData)
            /\ UNCHANGED children
       ELSE /\ children' = [children EXCEPT ![id] = DeletedChild]
            /\ resp' = Response("deleteChild", user, id, BlankBody, 200, TRUE,
                                "Child deleted", NoData)
    /\ events' = NoEvents
    /\ UNCHANGED <<schemes, applications, medicalCases, opportunities, ledger, gateway, pending>>

----------------------------------------------------------------------------
(* schemeController *)

\* createScheme: Scheme.create(req.body)
createScheme(user, b) ==
    /\ FreshIds(NewSchemeIds, schemes) # {}
    /\ IF SchemeValid(b)
       THEN LET id == NewId(NewSchemeIds, schemes)
            IN  /\ schemes' = Insert(schemes, id, SchemeDoc(Stored(b.minAge), Stored(b.maxAge)))
                /\ resp' = Response("createScheme", user, id, BlankBody, 201, TRUE, "",
                                    NoData)
       ELSE /\ resp' = Response("createScheme", user, Undef, BlankBody, 500, FALSE,
                                "ValidationError", NoData)
            /\ UNCHANGED schemes
    /\ events' = NoEvents
    /\ UNCHANGED <<children, applications, medicalCases, opportunities, ledger, gateway, pending>>

\* MatchQuery with $gt in place of $gte
MatchQueryExclusive(scheme) ==
    [age |-> scheme.minAge.set \/ scheme.maxAge.set,
     gte |-> IF scheme.minAge.set THEN Some(scheme.minAge.v + 1) ELSE None,
     lte |-> scheme.maxAge]

\* MatchQuery with `maxAge || 18` as the upper bound
MatchQueryDefaultMax(scheme) ==
    [age |-> scheme.minAge.set \/ scheme.maxAge.set,
     gte |-> scheme.minAge,
     lte |-> IF scheme.maxAge.set THEN scheme.maxAge ELSE Some(18)]

\* MatchQuery that sets query.age = {} whether or not a bound is defined
MatchQueryAlwaysAge(scheme) ==
    [age |-> TRUE,
     gte |-> scheme.minAge,
     lte |-> scheme.maxAge]

\* the query getSchemeMatches builds from scheme.eligibilityRules:
\*   if (minAge !== undefined || maxAge !== undefined) {
\*       query.age = {}; if (minAge !== undefined) query.age.$gte = minAge;
\*                       if (maxAge !== undefined) query.age.$lte = maxAge; }
MatchQuery(scheme) ==
    [age |-> scheme.minAge.set \/ scheme.maxAge.set,
     gte |-> scheme.minAge,
     lte |-> scheme.maxAge]

\* Child.find(query): a comparison operator matches only documents whose age is
\* a number satisfying it; an empty query matches every document
QueryMatches(doc, q) ==
    \/ ~q.age
    \/ /\ doc.age.set
       /\ q.gte.set => doc.age.v >= q.gte.v
       /\ q.lte.set => doc.age.v <= q.lte.v

\* getSchemeMatches that also requires the scheme's requiredDocuments of a child
getSchemeMatchesWithDocuments(user, id) ==
    /\ IF FindByIdThrows(id)
       THEN resp' = Response("getSchemeMatches", user, id, BlankBody, 500, FALSE,
                             "CastError", NoData)
       ELSE IF id \notin DOMAIN schemes
       THEN resp' = Response("getSchemeMatches", user, id, BlankBody, 404, FALSE,
                             "Scheme not found", NoData)
       ELSE resp' = Response("getSchemeMatches", user, id, BlankBody, 200, TRUE, "",
                {c \in LiveChildren :
                    /\ QueryMatches(children[c], MatchQuery(schemes[id]))
                    /\ schemes[id].requiredDocuments \subseteq children[c].documents})
    /\ events' = NoEvents
    /\ UNCHANGED <<registry, ledger, gateway, pending>>

\* getSchemeMatches that records an application for the first child it matches
getSchemeMatchesApplies(user, id) ==
    LET found == IF FindByIdThrows(id) \/ id \notin DOMAIN schemes THEN {}
                 ELSE {c \in LiveChildren :
                          QueryMatches(children[c], MatchQuery(schemes[id]))}
    IN  /\ IF FindByIdThrows(id)
           THEN resp' = Response("getSchemeMatches", user, id, BlankBody, 500, FALSE,
                                 "CastError", NoData)
           ELSE IF id \notin DOMAIN schemes
           THEN resp' = Response("getSchemeMatches", user, id, BlankBody, 404, FALSE,
                                 "Scheme not found", NoData)
           ELSE resp' = Response("getSchemeMatches", user, id, BlankBody, 200, TRUE, "",
                                 found)
        /\ IF found # {} /\ FreshIds(ApplicationIds, applications) # {}
           THEN applications' = Insert(applications, NewId(ApplicationIds, applications),
                    ApplicationDoc(ApplicationBody(CHOOSE c \in found : TRUE, id)))
           ELSE UNCHANGED applications
        /\ events' = NoEvents
        /\ UNCHANGED <<children, schemes, medicalCases, opportunities, ledger, gateway,
                       pending>>

\* getSchemeMatches: 404 for a missing scheme, else the children the query selects
getSchemeMatches(user, id) ==
    /\ IF FindByIdThrows(id)
       THEN resp' = Response("getSchemeMatches", user, id, BlankBody, 500, FALSE,
                             "CastError", NoData)
       ELSE IF id \notin DOMAIN schemes
       THEN resp' = Response("getSchemeMatches", user, id, BlankBody, 404, FALSE,
                             "Scheme not found", NoData)
       ELSE resp' = Response("getSchemeMatches", user, id, BlankBody, 200, TRUE, "",
                {c \in LiveChildren : QueryMatches(children[c], MatchQuery(schemes[id]))})
    /\ events' = NoEvents
    /\ UNCHANGED <<registry, ledger, gateway, pending>>

\* createApplication: SchemeApplication.create(req.body)
createApplication(user, b) ==
    /\ FreshIds(ApplicationIds, applications) # {}
    /\ IF ApplicationValid(b)
       THEN LET id == NewId(ApplicationIds, applications)
            IN  /\ applications' = Insert(applications, id, ApplicationDoc(b))
                /\ resp' = Response("createApplication", user, id, BlankBody, 201, TRUE,
                                    "", NoData)
       ELSE /\ resp' = Response("createApplication", user, Undef, BlankBody, 500, FALSE,
                                "ValidationError", NoData)
            /\ UNCHANGED applications
    /\ events' = NoEvents
    /\ UNCHANGED <<children, schemes, medicalCases, opportunities, ledger, gateway, pending>>

----------------------------------------------------------------------------
(* medicalController and the opportunity controller *)

\* createMedicalCase: MedicalCase.create(req.body)
createMedicalCase(user, b) ==
    /\ FreshIds(MedicalCaseIds, medicalCases) # {}
    /\ IF MedicalValid(b)
       THEN LET id == NewId(MedicalCaseIds, medicalCases)
            IN  /\ medicalCases' = Insert(medicalCases, id, MedicalDoc(b))
                /\ resp' = Response("createMedicalCase", user, id, BlankBody, 201, TRUE,
                                    "", NoData)
       ELSE /\ resp' = Response("createMedicalCase", user, Undef, BlankBody, 500, FALSE,
                                "ValidationError", NoData)
            /\ UNCHANGED medicalCases
    /\ events' = NoEvents
    /\ UNCHANGED <<children, schemes, applications, opportunities, ledger, gateway, pending>>

\* GET /api/medical, mounted above router.use(protect): getMedicalCases answers
\* MedicalCase.find().populate("child"), each case with its child document in
\* place of the id (null when no such child is stored)
getMedicalCases(user) ==
    /\ resp' = Response("getMedicalCases", user, Undef, BlankBody, 200, TRUE, "",
            {[id |-> m,
              status |-> medicalCases[m].status,
              child |-> IF ChildFound(medicalCases[m].child)
                        THEN [found |-> TRUE, id |-> medicalCases[m].child,
                              age |-> children[medicalCases[m].child].age,
                              orphanage |-> children[medicalCases[m].child].orphanage]
                        ELSE [found |-> FALSE, id |-> Undef, age |-> None,
                              orphanage |-> Undef]] : m \in DOMAIN medicalCases})
    /\ events' = NoEvents
    /\ UNCHANGED <<registry, gateway, ledger, pending>>

\* updateMedicalCase: MedicalCase.findByIdAndUpdate(id, {status}, {runValidators: true})
updateMedicalCase(user, id, status) ==
    /\ IF FindByIdThrows(id) \/ status \notin MedicalStatuses
       THEN /\ resp' = Response("updateMedicalCase", user, id, BlankBody, 500, FALSE,
                                "ValidationError", NoData)
            /\ UNCHANGED medicalCases
       ELSE IF id \notin DOMAIN medicalCases
       THEN /\ resp' = Response("updateMedicalCase", user, id, BlankBody, 404, FALSE,
                                "Not found", NoData)
            /\ UNCHANGED medicalCases
       ELSE /\ medicalCases' = [medicalCases EXCEPT ![id].status = status]
            /\ resp' = Response("updateMedicalCase", user, id, BlankBody, 200, TRUE, "",
                                NoData)
    /\ events' = NoEvents
    /\ UNCHANGED <<children, schemes, applications, opportunities, ledger, gateway, pending>>

\* createOpportunity: Opportunity.create(req.body)
createOpportunity(user, b) ==
    /\ FreshIds(OpportunityIds, opportunities) # {}
    /\ IF OpportunityValid(b)
       THEN LET id == NewId(OpportunityIds, opportunities)
            IN  /\ opportunities' = Insert(opportunities, id, OpportunityDoc(b))
                /\ resp' = Response("createOpportunity", user, id, BlankBody, 201, TRUE,
                                    "", NoData)
       ELSE /\ resp' = Response("createOpportunity", user, Undef, BlankBody, 500, FALSE,
                                "ValidationError", NoData)
            /\ UNCHANGED opportunities
    /\ events' = NoEvents
    /\ UNCHANGED <<children, schemes, applications, medicalCases, ledger, gateway, pending>>

\* updateOpportunity: Opportunity.findByIdAndUpdate(id, {status}, {runValidators: true})
updateOpportunity(user, id, status) ==
    /\ IF FindByIdThrows(id) \/ status \notin OpportunityStatuses
       THEN /\ resp' = Response("updateOpportunity", user, id, BlankBody, 500, FALSE,
                                "ValidationError", NoData)
            /\ UNCHANGED opportunities
       ELSE IF id \notin DOMAIN opportunities
       THEN /\ resp' = Response("updateOpportunity", user, id, BlankBody, 404, FALSE,
                                "Not found", NoData)
            /\ UNCHANGED opportunities
       ELSE /\ opportunities' = [opportunities EXCEPT ![id].status = status]
            /\ resp' = Response("updateOpportunity", user, id, BlankBody, 200, TRUE, "",
                                NoData)
    /\ events' = NoEvents
    /\ UNCHANGED <<children, schemes, applications, medicalCases, ledger, gateway, pending>>

----------------------------------------------------------------------------
(* aiAgents service and aiController: the child is looked up, then the       *)
(* request is forwarded to the external engine                               *)

\* what the engine does with a forwarded request: it answers with a result,
\* answers without one, or cannot be reached
EngineReplies == {"result", "empty", "down"}

\* the agent returns the engine's data, or throws; a missing child is
\* `throw new Error("Child not found")`
\* AgentOutcome that falls back to a default result when the engine cannot be reached
AgentOutcomeFallback(childId, reply) ==
    IF FindByIdThrows(childId) THEN [ok |-> FALSE, message |-> "CastError"]
    ELSE IF ~ChildFound(childId) THEN [ok |-> FALSE, message |-> "Child not found"]
    ELSE [ok |-> TRUE, message |-> ""]

AgentOutcome(childId, reply) ==
    IF FindByIdThrows(childId) THEN [ok |-> FALSE, message |-> "CastError"]
    ELSE IF ~ChildFound(childId) THEN [ok |-> FALSE, message |-> "Child not found"]
    ELSE IF reply = "down" THEN [ok |-> FALSE, message |-> "connect ECONNREFUSED"]
    ELSE [ok |-> TRUE, message |-> ""]

\* the controllers answer 200 {success: true, ...} or, in their catch,
\* 500 {success: false, message: error.message}
AiRespond(op, user, childId, reply) ==
    LET o == AgentOutcome(childId, reply)
    IN  /\ resp' = IF o.ok
                   THEN Response(op, user, childId, BlankBody, 200, TRUE, "",
                                 IF reply = "result" THEN {"engine result"} ELSE NoData)
                   ELSE Response(op, user, childId, BlankBody, 500, FALSE, o.message,
                                 NoData)
        /\ events' = NoEvents
        /\ UNCHANGED <<registry, ledger, gateway, pending>>

predictRisk(user, childId, reply) == AiRespond("predictRisk", user, childId, reply)
matchSchemes(user, childId, reply) == AiRespond("matchSchemes", user, childId, reply)
matchOpportunity(user, childId, reply) == AiRespond("matchOpportunity", user, childId, reply)

----------------------------------------------------------------------------
(* Authentication middleware and the donor-only routes *)

\* protect: a request without a valid token is answered 401
Protect(p) == p \in Users

\* authorize(...roles): a principal whose role is not listed is answered 403
Authorize(roles, p) == Role(p) \in roles

GateStatus(p, roles) ==
    IF ~Protect(p) THEN 401 ELSE IF ~Authorize(roles, p) THEN 403 ELSE 200

\* the middleware ends the request; the handler does not run
Rejected(op, p, body, roles) ==
    /\ resp' = Response(op, p, Undef, body, GateStatus(p, roles), FALSE,
                        "Not authorized", NoData)
    /\ events' = NoEvents
    /\ UNCHANGED <<registry, gateway, ledger, pending>>

\* router.post("/createOrder", protect, authorize("donor"), createOrder)
CreateOrderRoles == {"donor"}

PostCreateOrder(p, body) ==
    IF GateStatus(p, CreateOrderRoles) # 200
    THEN Rejected("createOrder", p, body, CreateOrderRoles)
    ELSE createOrder(p, body)

\* the verifyPayment route opened to admins as well
VerifyPaymentRolesWithAdmin == {"donor", "admin"}

\* router.post("/verifyPayment", protect, authorize("donor"), verifyPayment)
VerifyPaymentRoles == {"donor"}

PostVerifyPayment(p, body) ==
    IF GateStatus(p, VerifyPaymentRoles) # 200
    THEN Rejected("verifyPayment", p, body, VerifyPaymentRoles)
    ELSE verifyPayment(p, body)

\* router.post("/", protect, authorize("donor"), async (req, res) => {...})
PostDonationsRoles == {"donor"}

PostDonations(p, body) ==
    IF GateStatus(p, PostDonationsRoles) # 200
    THEN Rejected("postDonation", p, body, PostDonationsRoles)
    ELSE postDonation(p, body)

----------------------------------------------------------------------------
(* Initial stores *)

NoDocs == <<>>                       \* an empty collection

EmptyStores ==
    /\ children = NoDocs
    /\ schemes = NoDocs
    /\ applications = NoDocs
    /\ medicalCases = NoDocs
    /\ opportunities = NoDocs
    /\ ledger = <<>>
    /\ orders = <<>>
    /\ payments = <<>>
    /\ events = NoEvents
    /\ resp = NoRequest
    /\ pending = <<>>

\* the stores with a given child registry and scheme catalog in place
StoresWith(registries, catalogs) ==
    /\ children \in registries
    /\ schemes \in catalogs
    /\ applications = NoDocs
    /\ medicalCases = NoDocs
    /\ opportunities = NoDocs
    /\ ledger = <<>>
    /\ orders = <<>>
    /\ payments = <<>>
    /\ events = NoEvents
    /\ resp = NoRequest
    /\ pending = <<>>

----------------------------------------------------------------------------
(* The payment path: createOrder, checkout, verifyPayment by one donor *)

PayAmounts == {Num(5), StrV("7"), StrV("abc"), UndefV}
PayChildIds == {Undef, "c1", BadId}

\* what a client can put in the three gateway fields: the ids and signatures
\* the gateway handed out, in any combination, an absent field, and a digest
\* computed with a key of the client's own
OrderIdInputs == {orders[i].id : i \in 1..Len(orders)} \cup {NoId}
PaymentIdInputs == {payments[i].razorpay_payment_id : i \in 1..Len(payments)} \cup {NoId}
SignatureInputs ==
    {payments[i].razorpay_signature : i \in 1..Len(payments)}
        \cup {NoSig}
        \cup {Hmac(GuessedKey, SignedBody(o, q)) : o \in OrderIdInputs, q \in PaymentIdInputs}

\* the checkout handler's request for a captured payment, with any amount and child
HandedOutBodies(amounts, childIds) ==
    {PaymentBody(payments[i].razorpay_order_id, payments[i].razorpay_payment_id,
                 payments[i].razorpay_signature, a, Undef, c) :
        i \in 1..Len(payments), a \in amounts, c \in childIds}

\* any combination of the gateway fields, for a fixed amount
CombinedBodies ==
    {PaymentBody(oid, pid, sig, Num(5), Undef, Undef) :
        oid \in OrderIdInputs, pid \in PaymentIdInputs, sig \in SignatureInputs}

PaymentBodies == HandedOutBodies(PayAmounts, PayChildIds) \cup CombinedBodies

PayRegistries == {[c \in {"c1"} |-> ChildDoc(None, "o1")]}

InitPay == StoresWith(PayRegistries, {NoDocs})

CreateOrderStep == \E a \in PayAmounts \cup {Num(0)} :
                       createOrder("d1", DonationBody(a, Undef, Undef, Undef))
GatewayPayStep == \E i \in 1..Len(orders) : GatewayPay(i)
VerifyPaymentStep == \E b \in PaymentBodies : verifyPayment("d1", b)

NextPay ==
    \/ CreateOrderStep
    \/ GatewayPayStep
    \/ VerifyPaymentStep

SpecPay == InitPay /\ [][NextPay]_vars

----------------------------------------------------------------------------
(* The direct donation path: createDonation by one donor *)

DonationAmounts == {Num(5), Num(0), Num(-5), StrV("7"), StrV("abc"), UndefV}
ChildIdInputs == {Undef, "c1", "c2", BadId}
OrphanageIdInputs == {Undef, "o1", "o2"}

\* every target with a storable and an unstorable amount, and every amount
\* for a general donation
DonationBodies ==
    {DonationBody(a, Undef, c, o) :
        a \in {Num(5), StrV("abc")}, c \in ChildIdInputs, o \in OrphanageIdInputs}
    \cup {DonationBody(a, m, Undef, Undef) : a \in DonationAmounts, m \in {Undef, "thanks"}}

\* c1 is registered, with or without an owning orphanage; c2 is not
DonateRegistries ==
    {[c \in {"c1"} |-> ChildDoc(None, o)] : o \in {"o1", "o2", Undef}}

InitDonate == StoresWith(DonateRegistries, {NoDocs})

CreateDonationStep == \E b \in DonationBodies : createDonation("d1", b, "emits")

NextDonate == CreateDonationStep

SpecDonate == InitDonate /\ [][NextDonate]_vars

----------------------------------------------------------------------------
(* Matching: getSchemeMatches and the AI endpoints over a registry of three *)

AgeInputs == {None, Some(0), Some(17), Some(18), Some(19)}
MinAgeInputs == {None, Some(0), Some(18)}
MaxAgeInputs == {None, Some(17), Some(18)}

MatchRegistries ==
    {[c \in {"k1", "k2", "k3"} |-> ChildDoc(ages[c], "o1")] :
        ages \in [{"k1", "k2", "k3"} -> AgeInputs]}
MatchCatalogs ==
    {[x \in {"s1"} |-> SchemeDoc(lo, hi)] : lo \in MinAgeInputs, hi \in MaxAgeInputs}

InitMatch == StoresWith(MatchRegistries, MatchCatalogs)

GetSchemeMatchesStep == \E id \in {"s1", "s2", BadId} : getSchemeMatches("a1", id)
PredictRiskStep ==
    \E c \in {"k1", "c2", BadId}, r \in EngineReplies : predictRisk("o1", c, r)
MatchSchemesStep ==
    \E c \in {"k1", "c2", BadId}, r \in EngineReplies : matchSchemes("o1", c, r)
MatchOpportunityStep ==
    \E c \in {"k1", "c2", BadId}, r \in EngineReplies : matchOpportunity("o1", c, r)

NextMatch ==
    \/ GetSchemeMatchesStep
    \/ PredictRiskStep
    \/ MatchSchemesStep
    \/ MatchOpportunityStep

SpecMatch == InitMatch /\ [][NextMatch]_vars

----------------------------------------------------------------------------
(* The donor-only routes, called by every kind of principal *)

AuthPrincipals == {"d1", "o1", "a1", NoUser}
AuthBodies == {DonationBody(Num(5), Undef, Undef, Undef)}

InitAuth == EmptyStores

PostDonationsStep == \E p \in AuthPrincipals, b \in AuthBodies : PostDonations(p, b)
PostCreateOrderStep == \E p \in AuthPrincipals, b \in AuthBodies : PostCreateOrder(p, b)
PostVerifyPaymentStep ==
    \E p \in AuthPrincipals :
        \E b \in HandedOutBodies({Num(5)}, {Undef})
                    \cup {PaymentBody(NoId, NoId, NoSig, Num(5), Undef, Undef)} :
            PostVerifyPayment(p, b)

NextAuth ==
    \/ PostDonationsStep
    \/ PostCreateOrderStep
    \/ GatewayPayStep
    \/ PostVerifyPaymentStep

SpecAuth == InitAuth /\ [][NextAuth]_vars

----------------------------------------------------------------------------
(* The whole backend: every controller that writes, called by a principal    *)
(* its route admits                                                          *)

Init == EmptyStores

DonateStep ==
    \E c \in {Undef, "c1"} :
        createDonation("d1", DonationBody(Num(5), Undef, c, Undef), "emits")
PostDonationStep == postDonation("d1", DonationBody(Num(5), "thanks", Undef, Undef))
GetMyDonationsStep == getMyDonations("d1")
OrderStep == createOrder("d1", DonationBody(Num(5), Undef, Undef, Undef))
VerifyStep ==
    \E b \in HandedOutBodies({StrV("7")}, {"c1"}) : verifyPayment("d1", b)
CreateChildStep == createChild("o1", ChildBody("Asha", Num(5), "o1"))
UpdateChildStep == updateChild("o1", "c1", ChildBody(Undef, Num(7), Undef))
DeleteChildStep == deleteChild("o1", "c1")
CreateSchemeStep == createScheme("a1", SchemeBody("Scholarship", Num(5), UndefV))
CreateMedicalCaseStep == createMedicalCase("o1", MedicalBody("c1", "fever", Num(5)))
UpdateMedicalCaseStep == updateMedicalCase("o1", "m1", "funded")
CreateOpportunityStep == createOpportunity("a1", OpportunityBody("Tailoring", "vocational"))
UpdateOpportunityStep == updateOpportunity("a1", "op1", "filled")

Next ==
    \/ DonateStep
    \/ PostDonationStep
    \/ GetMyDonationsStep
    \/ OrderStep
    \/ GatewayPayStep
    \/ VerifyStep
    \/ CreateChildStep
    \/ UpdateChildStep
    \/ DeleteChildStep
    \/ CreateSchemeStep
    \/ CreateMedicalCaseStep
    \/ UpdateMedicalCaseStep
    \/ CreateOpportunityStep
    \/ UpdateOpportunityStep

Spec == Init /\ [][Next]_vars

----------------------------------------------------------------------------
(* Listing: two donors donate in any order and each lists their donations *)

NextList ==
    \/ \E d \in Donors, a \in {Num(5), StrV("7"), UndefV}, o \in {Undef, "o1"} :
           createDonation(d, DonationBody(a, Undef, Undef, o), "emits")
    \/ \E d \in Donors : getMyDonations(d)

SpecList == Init /\ [][NextList]_vars

----------------------------------------------------------------------------
(* The child registry: create, update and delete with any orphanage value,   *)
(* and the medical cases that are listed with their children                 *)

NextChild ==
    \/ \E a \in {UndefV, Num(5)}, o \in {Undef, "o1", "d1", "a1", "s2", BadId} :
           createChild("o1", ChildBody("Asha", a, o))
    \/ \E id \in {"c1", "c2"}, a \in {UndefV, Num(7)},
          o \in {Undef, "o2", "d1", "a1", "s2", BadId} :
           updateChild("o1", id, ChildBody(Undef, a, o))
    \/ \E id \in {"c1", "c2", BadId} : deleteChild("o1", id)
    \/ createMedicalCase("o1", MedicalBody("c1", "fever", Num(5)))
    \/ \E p \in {"o1", NoUser} : getMedicalCases(p)

SpecChild == Init /\ [][NextChild]_vars

----------------------------------------------------------------------------
(* Notification: createDonation under every behaviour of the socket server *)

NextNotify ==
    \E b \in DonationBodies, io \in IoOutcomes : createDonation("d1", b, io)

SpecNotify == InitDonate /\ [][NextNotify]_vars

----------------------------------------------------------------------------
(* Target resolution on both donation paths: createDonation and the payment  *)
(* path, for a registered child, an unregistered one and none                *)

NextTarget ==
    \/ \E c \in {Undef, "c1", "c2"}, o \in OrphanageIdInputs :
           createDonation("d1", DonationBody(Num(5), Undef, c, o), "emits")
    \/ createDonation("d1", DonationBody(Num(5), "thanks", "c2", Undef), "emits")
    \/ createOrder("d1", DonationBody(Num(5), Undef, Undef, Undef))
    \/ GatewayPayStep
    \/ \E b \in HandedOutBodies({Num(5)}, {Undef, "c1", "c2"}), o \in OrphanageIdInputs :
           verifyPayment("d1", [b EXCEPT !.orphanageId = o])

SpecTarget == InitDonate /\ [][NextTarget]_vars

----------------------------------------------------------------------------
(* Interleaving: donations for child c1 suspended at their awaits while the  *)
(* child is updated or deleted                                               *)

NextRace ==
    \/ lookupChild("createDonation", "d1", DonationBody(Num(5), Undef, "c1", Undef))
    \/ createOrder("d1", DonationBody(Num(5), Undef, Undef, Undef))
    \/ GatewayPayStep
    \/ \E b \in HandedOutBodies({Num(5)}, {"c1"}) : lookupChild("verifyPayment", "d1", b)
    \/ \E o \in {"o1", "o2"} : updateChild("o1", "c1", ChildBody(Undef, UndefV, o))
    \/ deleteChild("o1", "c1")
    \/ \E i \in 1..Len(pending) : insertDonation(i)

SpecRace == InitPay /\ [][NextRace]_vars

----------------------------------------------------------------------------
(* Eligibility rules: two schemes that differ in requiredDocuments and       *)
(* targetGroup, over children with and without documents                     *)

NextRules == \E id \in {"s1", "s2"} : getSchemeMatches("a1", id)

SpecRules ==
    /\ StoresWith(
         {[c \in {"k1", "k2"} |-> ChildDoc(ages[c], "o1") @@ [documents |-> docs[c]]] :
             ages \in [{"k1", "k2"} -> {None, Some(17), Some(19)}],
             docs \in [{"k1", "k2"} -> {{}, {"aadhaar"}}]},
         {[x \in {"s1", "s2"} |->
             IF x = "s1"
             THEN SchemeDoc(b1[1], b1[2]) @@ [requiredDocuments |-> {"aadhaar"},
                                              targetGroup |-> {"orphan"}]
             ELSE SchemeDoc(b2[1], b2[2]) @@ [requiredDocuments |-> {},
                                              targetGroup |-> {"student"}]] :
             b1 \in {None, Some(18)} \X {None, Some(18)},
             b2 \in {None, Some(18)} \X {None, Some(18)}})
    /\ [][NextRules]_vars

----------------------------------------------------------------------------
(* Request bodies that carry fields no handler reads: donor, donorId,        *)
(* fundType, targetModel and targetRef, on every path that writes a donation *)

NextBody ==
    LET Unread == {[donor |-> x, donorId |-> x, fundType |-> t[1],
                    targetModel |-> t[2], targetRef |-> t[3]] :
                      x \in {Undef, "d2"},
                      t \in {<<Undef, Undef, Undef>>,
                             <<"individual_sponsorship", "Child", "c1">>,
                             <<"medical", "MedicalCase", "m1">>}}
    IN  \/ \E d \in Donors, u \in Unread, c \in {Undef, "c1", "c2"} :
               createDonation(d, DonationBody(Num(5), Undef, c, Undef) @@ u, "emits")
        \/ \E u \in Unread :
               postDonation("d1", DonationBody(Num(5), "thanks", Undef, Undef) @@ u)
        \/ createOrder("d1", DonationBody(Num(5), Undef, Undef, Undef))
        \/ GatewayPayStep
        \/ \E d \in Donors, u \in Unread,
              b \in HandedOutBodies({Num(5)}, {Undef, "c1", "c2"}) :
               verifyPayment(d, b @@ u)

SpecBody == InitPay /\ [][NextBody]_vars

----------------------------------------------------------------------------
(* Properties *)

LastRecord == ledger[Len(ledger)]

\* the signature the gateway issues for the ids in a request body
ExpectedSignature(b) ==
    Hmac(RAZOR_KEY_SECRET, b.razorpay_order_id \o <<"|">> \o b.razorpay_payment_id)

\* C1: verifyPayment creates a donation only if razorpay_signature equals
\* HMAC-SHA256(RAZOR_KEY_SECRET, order_id + "|" + payment_id): a request whose
\* signature differs leaves the ledger unchanged and is answered 400, and the
\* ledger never grows in a verifyPayment step whose signature differs.
C1_SignatureGate ==
    [][ resp'.op = "verifyPayment" =>
          /\ resp'.body.razorpay_signature # ExpectedSignature(resp'.body) =>
                (ledger' = ledger /\ resp'.status = 400 /\ ~resp'.success)
          /\ ledger' # ledger =>
                resp'.body.razorpay_signature = ExpectedSignature(resp'.body) ]_vars

\* a digest over the ids of a captured payment, made with another key, was refused
C1_ForgedSignatureRefused ==
    /\ resp.op = "verifyPayment"
    /\ resp.status = 400
    /\ Len(payments) > 0
    /\ resp.body.razorpay_order_id = payments[1].razorpay_order_id
    /\ resp.body.razorpay_payment_id = payments[1].razorpay_payment_id
    /\ resp.body.razorpay_signature
          = Hmac(GuessedKey, SignedBody(payments[1].razorpay_order_id,
                                        payments[1].razorpay_payment_id))
    /\ ledger = <<>>

C4_RecordMatchesOrder ==
    (resp.op = "verifyPayment" /\ resp.status = 200) =>
        \E i \in 1..Len(orders) :
            /\ orders[i].id = resp.body.razorpay_order_id
            /\ orders[i].amount = LastRecord.amount * 100

\* C6: for a scheme with both minAge and maxAge set, getSchemeMatches returns
\* exactly the children with minAge <= age <= maxAge, both boundaries included.
C6_BothBounds ==
    (/\ resp.op = "getSchemeMatches"
     /\ resp.id \in DOMAIN schemes
     /\ schemes[resp.id].minAge.set
     /\ schemes[resp.id].maxAge.set) =>
        /\ resp.status = 200
        /\ resp.data = {c \in DOMAIN children :
                          /\ children[c].live
                          /\ children[c].age.set
                          /\ schemes[resp.id].minAge.v <= children[c].age.v
                          /\ children[c].age.v <= schemes[resp.id].maxAge.v}

\* bounds 0..18 over ages 17, 19, 0 returned the first and the third child
C6_ExampleMatched ==
    /\ resp.op = "getSchemeMatches"
    /\ resp.id = "s1"
    /\ schemes["s1"] = SchemeDoc(Some(0), Some(18))
    /\ children["k1"].age = Some(17)
    /\ children["k2"].age = Some(19)
    /\ children["k3"].age = Some(0)
    /\ resp.data = {"k1", "k3"}

\* C7: for a scheme with only minAge set, getSchemeMatches returns exactly the
\* children with age >= minAge; no upper bound applies.
C7_MinAgeOnly ==
    (/\ resp.op = "getSchemeMatches"
     /\ resp.id \in DOMAIN schemes
     /\ schemes[resp.id].minAge.set
     /\ ~schemes[resp.id].maxAge.set) =>
        /\ resp.status = 200
        /\ resp.data = {c \in DOMAIN children :
                          /\ children[c].live
                          /\ children[c].age.set
                          /\ children[c].age.v >= schemes[resp.id].minAge.v}

\* minAge 18 alone: a child of 19 was returned, a child of 17 and one without age were not
C7_OlderChildMatched ==
    /\ resp.op = "getSchemeMatches"
    /\ resp.id = "s1"
    /\ schemes["s1"] = SchemeDoc(Some(18), None)
    /\ children["k1"].age = Some(19)
    /\ children["k2"].age = Some(17)
    /\ children["k3"].age = None
    /\ resp.data = {"k1"}

AiOps == {"predictRisk", "matchSchemes", "matchOpportunity"}

\* C8 as stated: a request for a missing scheme, or an AI request for a missing
\* child, is answered with a not-found error (404), never a success and never
\* the status of an internal error.
C8_MissingIsNotFound ==
    /\ (resp.op = "getSchemeMatches" /\ resp.id \in ObjectIds
            /\ resp.id \notin DOMAIN schemes) =>
          (resp.status = 404 /\ ~resp.success)
    /\ (resp.op \in AiOps /\ resp.id \in ObjectIds /\ ~ChildFound(resp.id)) =>
          (resp.status = 404 /\ ~resp.success)

\* C9 as stated: every record in the ledger has a positive amount, and a
\* request whose amount is zero, negative or not a number is refused.
C9_PositiveAmounts ==
    /\ \A i \in 1..Len(ledger) : ledger[i].amount > 0
    /\ (/\ resp.op \in {"createDonation", "verifyPayment"}
        /\ ~(IsNumeric(resp.body.amount) /\ NumericValue(resp.body.amount) > 0)) =>
          ~resp.success

\* C5: donation records are immutable and append-only: in every step of every
\* backend operation, each record of the ledger is still in its place with the
\* same amount, targetRef, targetModel, fundType, donor and orphanage.
C5_LedgerAppendOnly ==
    [][ \A i \in 1..Len(ledger) :
            /\ i <= Len(ledger')
            /\ ledger'[i].amount = ledger[i].amount
            /\ ledger'[i].targetRef = ledger[i].targetRef
            /\ ledger'[i].targetModel = ledger[i].targetModel
            /\ ledger'[i].fundType = ledger[i].fundType
            /\ ledger'[i].donor = ledger[i].donor
            /\ ledger'[i].orphanage = ledger[i].orphanage ]_vars

\* the child a donation was made to has been deleted and the record is still there
C5_RecordOutlivesChild ==
    /\ resp.op = "deleteChild"
    /\ resp.status = 200
    /\ ~children["c1"].live
    /\ \E i \in 1..Len(ledger) :
          ledger[i].targetRef = "c1" /\ ledger[i].targetModel = "Child"

\* C10: a request to POST /donations, POST /payment/createOrder or
\* POST /payment/verifyPayment by a principal that is not a donor, or by nobody,
\* is answered 401 or 403 by the middleware, and adds no donation record and
\* no payment order.
C10_DonorOnly ==
    [][ (/\ resp'.op \in {"postDonation", "createOrder", "verifyPayment"}
         /\ Role(resp'.user) # "donor") =>
          /\ resp'.status \in {401, 403}
          /\ ~resp'.success
          /\ ledger' = ledger
          /\ orders' = orders ]_vars

\* an admin presented the genuine signature of a captured payment and was refused
C10_AdminRefused ==
    /\ resp.op = "verifyPayment"
    /\ resp.user = "a1"
    /\ resp.status = 403
    /\ Len(payments) > 0
    /\ resp.body.razorpay_signature = ExpectedSignature(resp.body)
    /\ resp.body.razorpay_signature = payments[1].razorpay_signature
    /\ ledger = <<>>

\* C11: getMyDonations returns exactly the ledger records whose donor is the
\* authenticated principal, in ledger order and none of another donor, with
\* count equal to the number of records returned, and changes no stored state.
C11_OwnDonationsOnly ==
    [][ resp'.op = "getMyDonations" =>
          /\ resp'.status = 200
          /\ \A i \in 1..Len(resp'.data.donations) :
                resp'.data.donations[i].donor = resp'.user
          /\ resp'.data.count = Len(resp'.data.donations)
          /\ resp'.data.count
                = Cardinality({k \in 1..Len(ledger) : ledger[k].donor = resp'.user})
          /\ \A k \in 1..Len(ledger) :
                ledger[k].donor = resp'.user =>
                    \E i \in 1..Len(resp'.data.donations) :
                        resp'.data.donations[i] = ledger[k]
          /\ ledger' = ledger
          /\ registry' = registry
          /\ gateway' = gateway ]_vars

\* d1 listed a ledger holding a donation of d2 and was shown only their own
C11_OtherDonorHidden ==
    /\ resp.op = "getMyDonations"
    /\ resp.user = "d1"
    /\ Len(ledger) = 2
    /\ ledger[1].donor = "d2"
    /\ ledger[2].donor = "d1"
    /\ resp.data.count = 1
    /\ resp.data.donations = <<ledger[2]>>

\* C12 as stated: after any sequence of createChild, updateChild and
\* deleteChild requests, the orphanage of every child record is unset or the
\* id of an existing account whose role is "orphanage".
C12_OrphanageIsOrphanageAccount ==
    \A c \in DOMAIN children :
        children[c].live =>
            \/ children[c].orphanage = Undef
            \/ (children[c].orphanage \in Users
                    /\ Role(children[c].orphanage) = "orphanage")

\* C13 as stated: when createDonation has persisted a record and the
\* new_donation notification did not go out (io.emit threw, or no io is
\* registered), the record stays and the caller still receives the 201
\* response carrying it.
C13_NotificationBestEffort ==
    [][ (/\ resp'.op = "createDonation"
         /\ Len(ledger') = Len(ledger) + 1
         /\ events' = NoEvents) =>
          /\ resp'.status = 201
          /\ resp'.success
          /\ resp'.data = {ledger'[Len(ledger')]} ]_vars

\* C14 as stated: every step that persists a donation record, through
\* createDonation or through verifyPayment, emits a new_donation event carrying
\* that record's amount, message and fundType, and a new_donation event is
\* emitted only by a step that persists the record it carries.
C14_EveryRecordAnnounced ==
    [][ /\ Len(ledger') = Len(ledger) + 1 =>
              events' = <<[type |-> "new_donation",
                           amount |-> ledger'[Len(ledger')].amount,
                           message |-> ledger'[Len(ledger')].message,
                           fundType |-> ledger'[Len(ledger')].fundType]>>
        /\ (events' # NoEvents /\ events'[1].type = "new_donation") =>
              Len(ledger') = Len(ledger) + 1 ]_vars

\* C15 as stated: the record POST /donations persists for a donor's body is
\* the record the createDonation controller would persist for the same body:
\* same fundType, targetRef, targetModel, orphanage and default message.
C15_RouteRunsCreateDonation ==
    (resp.op = "postDonation" /\ resp.status = 201) =>
        LET expected == DonationCreate(DonationDoc(resp.user, resp.body)).rec
        IN  /\ LastRecord.fundType = expected.fundType
            /\ LastRecord.targetRef = expected.targetRef
            /\ LastRecord.targetModel = expected.targetModel
            /\ LastRecord.orphanage = expected.orphanage
            /\ LastRecord.message = expected.message

C17_UnresolvedIsGeneral ==
    [][ (/\ resp'.op \in {"createDonation", "verifyPayment"}
         /\ Len(ledger') = Len(ledger) + 1
         /\ \/ ~Truthy(resp'.body.childId)
            \/ resp'.body.childId \notin DOMAIN children
            \/ ~children[resp'.body.childId].live) =>
          /\ ledger'[Len(ledger')].fundType = "general"
          /\ ledger'[Len(ledger')].targetRef = Undef
          /\ ledger'[Len(ledger')].targetModel = Undef
          /\ ledger'[Len(ledger')].orphanage = resp'.body.orphanageId ]_vars

\* a verified payment named a child that is not registered and orphanage o2:
\* the record is a general donation to o2
C17_UnknownChildOnPaymentPath ==
    /\ resp.op = "verifyPayment"
    /\ resp.status = 200
    /\ resp.body.childId = "c2"
    /\ "c2" \notin DOMAIN children
    /\ resp.body.orphanageId = "o2"
    /\ LastRecord.fundType = "general"
    /\ LastRecord.targetRef = Undef
    /\ LastRecord.orphanage = "o2"

\* C18 as stated: when the caller supplies no message, the stored message is
\* "Donation for Child" if and only if a child target resolved (targetModel =
\* "Child"), and "Donation for General Support" otherwise.
C18_DefaultMessageFollowsResolution ==
    (/\ resp.op \in {"createDonation", "verifyPayment"}
     /\ resp.success
     /\ ~Truthy(resp.body.message)) =>
        IF LastRecord.targetModel = "Child"
        THEN LastRecord.message = "Donation for Child"
        ELSE LastRecord.message = "Donation for General Support"

\* C19 as stated: a createDonation call answered with an error leaves the
\* ledger unchanged, and a call answered with success has added exactly one
\* record, wherever a step (child lookup, insert, event emit) fails.
C19_AllOrNothing ==
    [][ resp'.op = "createDonation" =>
          IF resp'.success
          THEN /\ Len(ledger') = Len(ledger) + 1
               /\ SubSeq(ledger', 1, Len(ledger)) = ledger
          ELSE ledger' = ledger ]_vars

\* C20: the child lookup and the donation insert are not atomic: the record a
\* suspended createDonation / verifyPayment inserts carries the orphanage and
\* target read at lookup time, whatever updateChild or deleteChild did to the
\* child in between.
C20_RecordCarriesLookupValue ==
    [][ (Len(pending') = Len(pending) - 1 /\ Len(ledger') = Len(ledger) + 1) =>
          \E i \in 1..Len(pending) :
              /\ pending' = SubSeq(pending, 1, i - 1) \o SubSeq(pending, i + 1, Len(pending))
              /\ ledger'[Len(ledger')].orphanage = pending[i].doc.orphanage
              /\ ledger'[Len(ledger')].targetRef = pending[i].doc.targetRef
              /\ ledger'[Len(ledger')].fundType = pending[i].doc.fundType ]_vars

\* a donation to c1 was just inserted for orphanage o1 although the child
\* belongs to o2 by now
C20_StaleOrphanageInserted ==
    /\ resp.op \in {"createDonation", "verifyPayment"}
    /\ resp.success
    /\ Len(ledger) > 0
    /\ LastRecord.targetRef = "c1"
    /\ LastRecord.orphanage = "o1"
    /\ children["c1"].live
    /\ children["c1"].orphanage = "o2"

C22_AgeFilterOnlyWithBound ==
    (resp.op = "getSchemeMatches" /\ resp.id \in DOMAIN schemes) =>
        /\ resp.status = 200
        /\ IF ~schemes[resp.id].minAge.set /\ ~schemes[resp.id].maxAge.set
           THEN resp.data = {c \in DOMAIN children : children[c].live}
           ELSE \A c \in resp.data : children[c].age.set

\* an unbounded scheme returned all three children, one of them without an age
C22_AgelessChildReturned ==
    /\ resp.op = "getSchemeMatches"
    /\ resp.id = "s1"
    /\ schemes["s1"] = SchemeDoc(None, None)
    /\ children["k1"].age = Some(17)
    /\ children["k3"].age = None
    /\ resp.data = {"k1", "k2", "k3"}

\* C23: getSchemeMatches only reads. For every scheme id, of an existing scheme
\* or not, the registry, the catalog, the applications, the ledger and the
\* gateway are the same after the request as before it, and the request emits
\* no event.
C23_MatchesOnlyRead ==
    [][ resp'.op = "getSchemeMatches" =>
          /\ children' = children
          /\ schemes' = schemes
          /\ applications' = applications
          /\ medicalCases' = medicalCases
          /\ opportunities' = opportunities
          /\ ledger' = ledger
          /\ orders' = orders
          /\ payments' = payments
          /\ events' = NoEvents ]_vars

\* a request for the one scheme of the catalog returned children and left no
\* application and no event behind
C23_MatchesServed ==
    /\ resp.op = "getSchemeMatches"
    /\ resp.id = "s1"
    /\ resp.status = 200
    /\ resp.data # {}
    /\ DOMAIN schemes = {"s1"}
    /\ applications = NoDocs
    /\ events = NoEvents

\* C24 as stated: a verified payment is credited at most once; a request that
\* submits again the order id, payment id and signature of a payment already
\* credited adds no record to the ledger.
C24_CreditedOnce ==
    [][ (/\ resp.op = "verifyPayment" /\ resp.status = 200
         /\ resp'.op = "verifyPayment"
         /\ resp'.body.razorpay_order_id = resp.body.razorpay_order_id
         /\ resp'.body.razorpay_payment_id = resp.body.razorpay_payment_id
         /\ resp'.body.razorpay_signature = resp.body.razorpay_signature) =>
          ledger' = ledger ]_vars

\* C25: the donor stored on a donation is the authenticated principal of the
\* request, on createDonation and on verifyPayment alike; a donor or donorId
\* field in the request body never changes it.
C25_DonorIsPrincipal ==
    (/\ resp.op \in {"createDonation", "verifyPayment"}
     /\ resp.status \in {200, 201}) =>
        /\ Len(ledger) > 0
        /\ LastRecord.donor = resp.user
        /\ resp.data = {LastRecord}

\* d1 verified a payment with a body naming d2 as donor and donorId, and the
\* record names d1
C25_BodyDonorIgnored ==
    /\ resp.op = "verifyPayment"
    /\ resp.status = 200
    /\ resp.user = "d1"
    /\ resp.body.donor = "d2"
    /\ resp.body.donorId = "d2"
    /\ LastRecord.donor = "d1"

\* C26: the classification and the target of a donation come from the target
\* resolution alone; fundType, targetModel and targetRef in the request body
\* are ignored. Every record has fundType general or individual_sponsorship,
\* and individual_sponsorship exactly when targetModel is "Child" and
\* targetRef is set.
C26_ClassifiedByResolution ==
    /\ \A i \in 1..Len(ledger) :
          /\ ledger[i].fundType \in {"general", "individual_sponsorship"}
          /\ ledger[i].fundType = "individual_sponsorship" <=>
                (ledger[i].targetModel = "Child" /\ ledger[i].targetRef # Undef)
    /\ (/\ resp.op \in {"createDonation", "verifyPayment"}
        /\ resp.status \in {200, 201}) =>
          LET c == resp.body.childId
              found == /\ c # Undef
                       /\ c \in DOMAIN children
                       /\ children[c].live
          IN  /\ LastRecord.fundType =
                    IF found THEN "individual_sponsorship" ELSE "general"
              /\ LastRecord.targetModel = IF found THEN "Child" ELSE Undef
              /\ LastRecord.targetRef = IF found THEN c ELSE Undef

\* a body asking for fundType medical on a medical case, with no childId, was
\* recorded as a general donation without a target
C26_BodyClassificationIgnored ==
    /\ resp.op = "createDonation"
    /\ resp.status = 201
    /\ resp.body.childId = Undef
    /\ resp.body.fundType = "medical"
    /\ resp.body.targetModel = "MedicalCase"
    /\ resp.body.targetRef = "m1"
    /\ LastRecord.fundType = "general"
    /\ LastRecord.targetModel = Undef
    /\ LastRecord.targetRef = Undef

\* C27 as stated: an orphanage principal can update or delete only its own
\* children; updateChild or deleteChild by an orphanage for a child whose
\* orphanage is another account, or is unset, leaves the child unchanged.
C27_OwnChildrenOnly ==
    [][ (/\ resp'.op \in {"updateChild", "deleteChild"}
         /\ resp'.user \in Orphanages
         /\ resp'.id \in DOMAIN children
         /\ children[resp'.id].live
         /\ children[resp'.id].orphanage # resp'.user) =>
          children' = children ]_vars

\* C28 as stated: every route whose response contains child data rejects a
\* request without an authenticated principal; the listing of medical cases,
\* populated with their children, is one of those routes.
C28_ChildDataNeedsLogin ==
    (resp.op = "getMedicalCases" /\ resp.user \notin Users) =>
        /\ resp.status = 401
        /\ \A m \in resp.data : ~m.child.found

\* C29 as stated: every donation whose targetModel is "Child", every scheme
\* application and every medical case references a child that exists, after
\* any sequence of operations, deleteChild included.
C29_ReferencesExist ==
    /\ \A i \in 1..Len(ledger) :
          ledger[i].targetModel = "Child" =>
              /\ ledger[i].targetRef \in DOMAIN children
              /\ children[ledger[i].targetRef].live
    /\ \A a \in DOMAIN applications :
          /\ applications[a].child \in DOMAIN children
          /\ children[applications[a].child].live
    /\ \A m \in DOMAIN medicalCases :
          /\ medicalCases[m].child \in DOMAIN children
          /\ children[medicalCases[m].child].live

====
